---- MODULE Spec2Model ----
(***************************************************************************)
(* OTT-Analysis: the Neo4j catalogue graph written by import_data.py and  *)
(* by the "Add New Content" page, the uniqueness constraints of           *)
(* create_schema.py, and the "Movie Recommendations" page that reads the  *)
(* graph and ranks the movies similar to a selected one.                  *)
(*                                                                         *)
(* Strings that the code inspects character by character (titles, search   *)
(* text) are sequences of one-character strings.  Scores are kept in      *)
(* tenths (5.5 is 55), so that the weights 2, 1.5 and 1.5 stay integers.   *)
(***************************************************************************)
EXTENDS Integers, Sequences, FiniteSets, TLC

VARIABLES
    items,            \* Movie / TVShow nodes, in creation order (index = node identity)
    named,            \* per label Director/Actor/Country/Genre: name -> number of nodes
    rels,             \* <<type, item node, name>> -> number of relationships
    constraints,      \* names of the uniqueness constraints that exist
    pc,               \* position of the Recommendations page run
    movies,           \* page local: titles read by movies_query
    search_query,     \* page local: the text of the search box
    options,          \* page local: filtered_movies, the options of the selectbox
    selected_movie,   \* page local: the selected title, or None
    recommendations,  \* page local: rows returned by recommendations_query
    queries,          \* queries this page run has sent to the database
    sessions,         \* the sessions this page run has opened, one record each
    driver,           \* the driver of this page run: none, failed, open or closed
    shown,            \* what this page run has displayed
    error,            \* exception that ended this page run, or "none"
    script,           \* the last run of import_data.py or create_schema.py
    session_state,    \* st.session_state of the AI Query Generator page
    run               \* the page of this run, if another page, and its widgets

graph == <<items, named, rels, constraints>>
page  == <<pc, movies, search_query, options, selected_movie, recommendations,
           queries, sessions, driver, shown, error>>
vars  == <<items, named, rels, constraints,
           pc, movies, search_query, options, selected_movie, recommendations,
           queries, sessions, driver, shown, error, script, session_state, run>>
forms == <<session_state, run>>

None == <<"None">>

\* ------------------------------------------------------------------ bounds
\* most Movie/TVShow nodes in the graph of the specification Spec
MaxItems == 3
\* largest catalogue of the specification SpecCatalog
MaxCatalog == 12
\* most transient failures session.execute_write meets in a row before its
\* retry time is over
MaxRetries == 2

\* ------------------------------------------------- constants of the program
\* genre_matches * 2, in tenths
GenreWeight == 20
\* actor_matches * 1.5, in tenths
ActorWeight == 15
\* director_matches * 1.5, in tenths
DirectorWeight == 15
\* LIMIT 10
Limit == 10

\* --------------------------------------------------------------- utilities
Max(a, b) == IF a >= b THEN a ELSE b
Min(a, b) == IF a <= b THEN a ELSE b

Range(s) == {s[i] : i \in 1..Len(s)}

\* a bag is a function from its elements to positive counts
EmptyBag == <<>>
Copies(b, e) == IF e \in DOMAIN b THEN b[e] ELSE 0
AddCopy(b, e) == IF e \in DOMAIN b THEN [b EXCEPT ![e] = @ + 1] ELSE b @@ (e :> 1)

\* ------------------------------------------------------------------ strings
\* str.lower() on one character
LowerChar(c) ==
    CASE c = "A" -> "a"
      [] c = "B" -> "b"
      [] OTHER   -> c

\* code point of a character (Cypher and Python order strings by code point)
CodePoint(c) ==
    CASE c = "A" -> 65
      [] c = "B" -> 66
      [] c = "a" -> 97
      [] c = "b" -> 98
      [] OTHER   -> 122

Lower(s) == [i \in 1..Len(s) |-> LowerChar(s[i])]

\* Python's `needle in hay` on strings
Contains(hay, needle) ==
    \E k \in 0..(Len(hay) - Len(needle)) :
        \A i \in 1..Len(needle) : hay[k + i] = needle[i]

\* s < t in code-point order
StrLess(s, t) ==
    \E k \in 1..(Min(Len(s), Len(t)) + 1) :
        /\ \A i \in 1..(k - 1) : s[i] = t[i]
        /\ \/ k = Len(s) + 1 /\ k <= Len(t)
           \/ k <= Len(s) /\ k <= Len(t) /\ CodePoint(s[k]) < CodePoint(t[k])

\* --------------------------------------------------------------- the graph
\* A graph value g has the fields items, named, rels and constraints of the
\* variables of the same names.
Labels == {"Director", "Actor", "Country", "Genre"}

EmptyGraph ==
    [items |-> <<>>, named |-> [l \in Labels |-> EmptyBag], rels |-> EmptyBag,
     constraints |-> {}]

\* nodes of label l (any label when l = "Any") whose show_id is sid
ItemsWith(g, l, sid) ==
    {i \in 1..Len(g.items) :
        /\ g.items[i].show_id = sid
        /\ l \in {"Any", g.items[i].label}}

\* REQUIRE x.title IS UNIQUE for the items of label l
TitleUnique(g, l) ==
    \A i, j \in 1..Len(g.items) :
        (/\ i # j
         /\ g.items[i].label = l
         /\ g.items[j].label = l) => g.items[i].title # g.items[j].title

\* REQUIRE x.name IS UNIQUE for the nodes of label l
NameUnique(g, l) == \A n \in DOMAIN g.named[l] : g.named[l][n] <= 1

\* the data satisfies the constraint named c
Satisfies(g, c) ==
    CASE c = "movie_title"   -> TitleUnique(g, "Movie")
      [] c = "tvshow_title"  -> TitleUnique(g, "TVShow")
      [] c = "director_name" -> NameUnique(g, "Director")
      [] c = "actor_name"    -> NameUnique(g, "Actor")
      [] c = "country_name"  -> NameUnique(g, "Country")
      [] c = "genre_name"    -> NameUnique(g, "Genre")

\* a write that leaves the graph g is accepted by every existing constraint
ConstraintsHold(g) == \A c \in g.constraints : Satisfies(g, c)

\* faulty variant: CREATE (x:l {name: n})
CreateNamed(g, l, n) == [g EXCEPT !.named[l] = AddCopy(@, n)]

\* MERGE (x:l {name: n})
MergeNamed(g, l, n) ==
    IF Copies(g.named[l], n) > 0 THEN g
    ELSE [g EXCEPT !.named[l] = AddCopy(@, n)]

\* faulty variant: CREATE of the relationship, whether it exists or not
CreateRels(g, t, n, targets) ==
    LET new == {<<t, i, n>> : i \in targets}
    IN  [g EXCEPT !.rels = [e \in DOMAIN @ \cup new |->
                               Copies(@, e) + (IF e \in new THEN 1 ELSE 0)]]

\* MERGE of one relationship of type t between the node named n and each
\* item node of targets
MergeRels(g, t, n, targets) ==
    LET new == {<<t, i, n>> : i \in targets} \ DOMAIN g.rels
    IN  [g EXCEPT !.rels = @ @@ [e \in new |-> 1]]

\* label of the node at the named end of a relationship of type t
LabelOf(t) ==
    CASE t = "DIRECTED"         -> "Director"
      [] t = "ACTED_IN"         -> "Actor"
      [] t = "RELEASED_IN"      -> "Country"
      [] t = "BELONGS_TO_GENRE" -> "Genre"

\* one statement per name of the list: MERGE the named node, MERGE its
\* relationship with every target
RECURSIVE MergeList(_, _, _, _)
MergeList(g, t, names, targets) ==
    IF names = <<>> THEN g
    ELSE MergeList(MergeRels(MergeNamed(g, LabelOf(t), Head(names)),
                             t, Head(names), targets),
                   t, Tail(names), targets)

\* ------------------------------------------------------------ import_data.py
ItemLabel(type) == IF type = "Movie" THEN "Movie" ELSE "TVShow"

\* faulty variant: an item found is detached from its relationships before
\* it is written again
MergeItemDetached(g, row) ==
    LET l     == ItemLabel(row.type)
        found == ItemsWith(g, l, row.show_id)
        node  == [label |-> l, show_id |-> row.show_id, title |-> row.title,
                  release_year |-> row.release_year, rating |-> row.rating,
                  duration |-> row.duration]
        kept  == {e \in DOMAIN g.rels : e[2] \notin found}
    IN  IF found = {} THEN [g EXCEPT !.items = Append(@, node)]
        ELSE [g EXCEPT !.items =
                 [i \in 1..Len(g.items) |-> IF i \in found THEN node ELSE g.items[i]],
                       !.rels = [e \in kept |-> g.rels[e]]]

\* MERGE (m:Label {show_id: $show_id}) SET m.title = ..., m.release_year = ...
MergeItem(g, row) ==
    LET l     == ItemLabel(row.type)
        found == ItemsWith(g, l, row.show_id)
        node  == [label |-> l, show_id |-> row.show_id, title |-> row.title,
                  release_year |-> row.release_year, rating |-> row.rating,
                  duration |-> row.duration]
    IN  IF found = {} THEN [g EXCEPT !.items = Append(@, node)]
        ELSE [g EXCEPT !.items =
                 [i \in 1..Len(g.items) |-> IF i \in found THEN node ELSE g.items[i]]]

\* create_movie_or_show(tx, row) inside session.execute_write: the graph the
\* transaction commits, and ok = FALSE (graph unchanged) when a constraint
\* rejects it
CreateMovieOrShow(g, row) ==
    LET g0 == MergeItem(g, row)
        to == ItemsWith(g0, "Any", row.show_id)
        g1 == MergeList(g0, "DIRECTED", row.director, to)
        g2 == MergeList(g1, "ACTED_IN", row.cast, to)
        g3 == MergeList(g2, "RELEASED_IN", row.country, to)
        g4 == MergeList(g3, "BELONGS_TO_GENRE", row.listed_in, to)
    IN  IF ConstraintsHold(g4) THEN [ok |-> TRUE, graph |-> g4]
        ELSE [ok |-> FALSE, graph |-> g]

\* import_data(driver, csv_file): one write transaction per row, in order;
\* the first failing row raises and ends the import
RECURSIVE ImportRows(_, _)
ImportRows(g, csv) ==
    IF csv = <<>> THEN [ok |-> TRUE, graph |-> g]
    ELSE LET r == CreateMovieOrShow(g, Head(csv))
         IN  IF r.ok THEN ImportRows(r.graph, Tail(csv))
             ELSE [ok |-> FALSE, graph |-> r.graph]

\* ------------------------------------------------- pages/3 Add New Content
\* faulty variant: the Movie is created in a statement of its own and stays
\* when the statement of the lists is rejected
AddMovieQueryPartial(g, d) ==
    LET node == [label |-> "Movie", show_id |-> d.show_id, title |-> d.title,
                 release_year |-> d.release_year, rating |-> d.rating,
                 duration |-> d.duration]
        g0 == [g EXCEPT !.items = Append(@, node)]
        m  == {Len(g0.items)}
        g1 == MergeList(g0, "DIRECTED", d.directors, m)
        g2 == MergeList(g1, "ACTED_IN", d.cast, m)
    IN  IF ConstraintsHold(g2) THEN [ok |-> TRUE, graph |-> g2]
        ELSE [ok |-> FALSE, graph |-> g0]

\* Neo4jConnection.add_movie: CREATE the Movie, then one UNWIND per list.
\* An UNWIND of an empty list leaves no row, and the clauses after it then
\* run for no row at all.
AddMovieQuery(g, d) ==
    LET node == [label |-> "Movie", show_id |-> d.show_id, title |-> d.title,
                 release_year |-> d.release_year, rating |-> d.rating,
                 duration |-> d.duration]
        g0 == [g EXCEPT !.items = Append(@, node)]
        m  == {Len(g0.items)}
        g1 == MergeList(g0, "DIRECTED", d.directors, m)
        r1 == d.directors # <<>>
        g2 == IF r1 THEN MergeList(g1, "ACTED_IN", d.cast, m) ELSE g1
        r2 == r1 /\ d.cast # <<>>
        g3 == IF r2 THEN MergeList(g2, "RELEASED_IN", d.countries, m) ELSE g2
        r3 == r2 /\ d.countries # <<>>
        g4 == IF r3 THEN MergeList(g3, "BELONGS_TO_GENRE", d.genres, m) ELSE g3
    IN  IF ConstraintsHold(g4) THEN [ok |-> TRUE, graph |-> g4]
        ELSE [ok |-> FALSE, graph |-> g]

\* ---------------------------------------------------------- create_schema.py
SchemaOrder ==
    <<"movie_title", "tvshow_title", "director_name", "actor_name",
      "country_name", "genre_name">>

\* create_schema(driver): CREATE CONSTRAINT ... IF NOT EXISTS, one statement
\* after the other; a constraint the data violates raises and ends the script
RECURSIVE CreateConstraints(_, _)
CreateConstraints(g, todo) ==
    IF todo = <<>> THEN g
    ELSE IF Satisfies(g, Head(todo))
         THEN CreateConstraints([g EXCEPT !.constraints = @ \cup {Head(todo)}],
                                Tail(todo))
         ELSE g

\* ------------------------------------------- pages/5 Movie Recommendations
\* faulty variant: MATCH (m) without the label
AnyNodes(g) == 1..Len(g.items)

\* MATCH (m:Movie)
MovieNodes(g) == {i \in 1..Len(g.items) : g.items[i].label = "Movie"}

\* the rows of a set of nodes in ascending order of title (equal titles give
\* equal rows, whichever comes first)
RECURSIVE TitlesAscending(_, _)
TitlesAscending(g, nodes) ==
    IF nodes = {} THEN <<>>
    ELSE LET first == CHOOSE i \in nodes :
                          \A j \in nodes : ~StrLess(g.items[j].title, g.items[i].title)
         IN  <<g.items[first].title>> \o TitlesAscending(g, nodes \ {first})

\* MATCH (m:Movie) RETURN m.title as title ORDER BY m.title
MoviesQuery(g) == TitlesAscending(g, MovieNodes(g))

\* the names n with (i)-[:t]-(n) and (j)-[:t]-(n): what count(DISTINCT x)
\* counts for the pair selected = i, similar = j
Shared(g, t, i, j) ==
    {n \in DOMAIN g.named[LabelOf(t)] :
        /\ Copies(g.rels, <<t, i, n>>) > 0
        /\ Copies(g.rels, <<t, j, n>>) > 0}

\* MATCH (selected:Movie {title: $movie})
SelectedNodes(g, movie) == {i \in MovieNodes(g) : g.items[i].title = movie}

\* faulty variant: OPTIONAL MATCH on the genres, every other Movie is a candidate
SimilarNodesOptionalGenre(g, s) == {c \in MovieNodes(g) : c # s}

\* faulty variant: candidates joined through any shared genre, actor or director
SimilarNodesAnyLink(g, s) ==
    {c \in MovieNodes(g) :
        /\ c # s
        /\ \E t \in {"BELONGS_TO_GENRE", "ACTED_IN", "DIRECTED"} : Shared(g, t, s, c) # {}}

\* MATCH (selected)-[:BELONGS_TO_GENRE]->(g:Genre)<-[:BELONGS_TO_GENRE]-(similar:Movie)
\* WHERE similar <> selected
SimilarNodes(g, s) ==
    {c \in MovieNodes(g) : c # s /\ Shared(g, "BELONGS_TO_GENRE", s, c) # {}}

\* faulty variant: the weights of genres and actors exchanged
TotalScoreSwapped(genre_matches, actor_matches, director_matches) ==
    genre_matches * ActorWeight + actor_matches * GenreWeight
        + director_matches * DirectorWeight

\* genre_score + actor_score + director_score, in tenths
TotalScore(genre_matches, actor_matches, director_matches) ==
    genre_matches * GenreWeight + actor_matches * ActorWeight
        + director_matches * DirectorWeight

\* WITH selected, similar, count(DISTINCT g) as genre_matches
GenreMatches(g, s, c) == Cardinality(Shared(g, "BELONGS_TO_GENRE", s, c))

\* faulty variant: the actors matched in the pattern of the genres and
\* counted per row, one row per shared genre and shared actor
ActorMatchesJoined(g, s, c) ==
    Cardinality(Shared(g, "BELONGS_TO_GENRE", s, c) \X Shared(g, "ACTED_IN", s, c))

\* OPTIONAL MATCH (selected)<-[:ACTED_IN]-(a:Actor)-[:ACTED_IN]->(similar)
\* WITH selected, similar, genre_matches, count(DISTINCT a) as actor_matches:
\* the genres are already folded into one row per pair, and a pair without
\* a common actor keeps its row with a count of 0
ActorMatches(g, s, c) == Cardinality(Shared(g, "ACTED_IN", s, c))

\* OPTIONAL MATCH (selected)<-[:DIRECTED]-(d:Director)-[:DIRECTED]->(similar)
\* WITH ..., count(DISTINCT d) as director_matches
DirectorMatches(g, s, c) == Cardinality(Shared(g, "DIRECTED", s, c))

\* the row of the pair (selected s, similar c).  The fields selected and
\* similar are the identities of the two nodes the row was computed from,
\* and the three counts are the values the query carries from WITH to WITH;
\* the page receives the other five.
RecommendationRow(g, s, c) ==
    [selected |-> s, similar |-> c,
     genre_matches |-> GenreMatches(g, s, c),
     actor_matches |-> ActorMatches(g, s, c),
     director_matches |-> DirectorMatches(g, s, c),
     title |-> g.items[c].title, year |-> g.items[c].release_year,
     rating |-> g.items[c].rating, duration |-> g.items[c].duration,
     similarity_score |->
         TotalScore(GenreMatches(g, s, c), ActorMatches(g, s, c),
                    DirectorMatches(g, s, c))]

\* the rows before ORDER BY ... LIMIT: one per pair (selected, similar)
CandidateRows(g, movie) ==
    UNION {{RecommendationRow(g, s, c) : c \in SimilarNodes(g, s)} :
              s \in SelectedNodes(g, movie)}

\* Rows of equal total_score come in an order Cypher does not fix.  A tie
\* order ranks the nodes; rows of equal score follow the ranks of their
\* (selected, similar) nodes.  The orders are the rotations of the creation
\* order and of its reverse.
TieOrders(n) ==
    IF n = 0 THEN {<<>>}
    ELSE {[i \in 1..n |-> ((i + k) % n) + 1] : k \in 0..(n - 1)}
             \cup {[i \in 1..n |-> ((n - i + k) % n) + 1] : k \in 0..(n - 1)}

TieKey(r, tie) == tie[r.selected] * (Len(tie) + 1) + tie[r.similar]

\* faulty variant: ORDER BY total_score (ascending)
PrecedesAscending(r, q, tie) ==
    \/ r.similarity_score < q.similarity_score
    \/ /\ r.similarity_score = q.similarity_score
       /\ TieKey(r, tie) < TieKey(q, tie)

\* r comes before q under ORDER BY total_score DESC
Precedes(r, q, tie) ==
    \/ r.similarity_score > q.similarity_score
    \/ /\ r.similarity_score = q.similarity_score
       /\ TieKey(r, tie) < TieKey(q, tie)

\* ORDER BY total_score DESC
RECURSIVE OrderByScore(_, _)
OrderByScore(rows, tie) ==
    IF rows = {} THEN <<>>
    ELSE LET first == CHOOSE r \in rows : \A q \in rows \ {r} : Precedes(r, q, tie)
         IN  <<first>> \o OrderByScore(rows \ {first}, tie)

\* faulty variant: no LIMIT clause
TopUnlimited(rows) == rows

\* faulty variant: the last 10 rows of the order instead of the first 10
TopFromEnd(rows) == SubSeq(rows, Len(rows) - Min(Limit, Len(rows)) + 1, Len(rows))

\* LIMIT 10
Top(rows) == SubSeq(rows, 1, Min(Limit, Len(rows)))

\* neo4j.query(recommendations_query, {'movie': selected_movie})
RecommendationsQuery(g, movie, tie) == Top(OrderByScore(CandidateRows(g, movie), tie))

\* movie_details_query: one row per matched Movie (grouped by the returned
\* title, year, rating and duration)
MovieDetailsQuery(g, movie) ==
    {[title |-> g.items[i].title, year |-> g.items[i].release_year,
      rating |-> g.items[i].rating, duration |-> g.items[i].duration] :
        i \in SelectedNodes(g, movie)}

\* faulty variant: a query with a SET clause on the nodes it returns
AfterSet(g) ==
    [g EXCEPT !.items = [i \in 1..Len(g.items) |-> [g.items[i] EXCEPT !.rating = "seen"]]]

\* the graph a read query (MATCH ... RETURN) leaves behind
AfterRead(g) == g

\* faulty variant: the table and the details are rendered whatever came back
AlwaysRenders(recs) == TRUE

\* `if recommendations:` the branch that renders the table and runs
\* movie_details_query
HasRecommendations(recs) == recs # <<>>

\* faulty variant: the scoring runs whether a movie is selected or not
AlwaysSelected(movie) == TRUE

\* `if selected_movie:` the branch that scores
HasSelection(movie) == movie # None

\* {'movie': selected_movie}, the parameters of recommendations_query and of
\* movie_details_query
MovieParams(movie) == [movie |-> movie]

\* faulty variant: the text is compared as typed
FilteredMoviesExact(ms, text) == SelectSeq(ms, LAMBDA m : Contains(m, text))

\* [m for m in movies if search_query.lower() in m.lower()]
FilteredMovies(ms, text) ==
    SelectSeq(ms, LAMBDA m : Contains(Lower(m), Lower(text)))

\* --------------------------------------------------- Neo4jConnection.query
\* How a call of the driver ends: "none" (it returns), "run" (session.run
\* raises), "records" (reading the records raises); "connect" is
\* GraphDatabase.driver raising.
QueryFaults == {"none", "run", "records"}

NoParams == <<>>

\* self.driver.session(): every call makes a session of its own
NewSession(ss) == Len(ss) + 1

\* faulty variant: session.close() only after the return statement
OpenAfterFailure(outcome) == outcome # "none"

\* `with self.driver.session() as session:` closes the session however the
\* block is left
OpenAfter(outcome) == FALSE

\* one call of neo4j.query(query, params) ending as outcome, added to the
\* sessions ss of the run
QueryCall(ss, query, params, outcome) ==
    Append(ss, [id |-> NewSession(ss), query |-> query, params |-> params,
                outcome |-> outcome, open |-> OpenAfter(outcome)])

\* faulty variant: the exception is swallowed
UncaughtSilent(err) == {}

\* an exception nothing catches leaves main(): Streamlit shows it on the page
Uncaught(err) == IF err # "none" THEN {"exception"} ELSE {}

\* ------------------------------------------------------------------ inputs
\* rows of netflix_titles_cleaned.csv
Row(type, show_id, title, director, cast, country, listed_in) ==
    [type |-> type, show_id |-> show_id, title |-> title,
     release_year |-> 2020, rating |-> "PG", duration |-> 90,
     director |-> director, cast |-> cast, country |-> country,
     listed_in |-> listed_in]

CsvRows ==
    {Row("Movie", "s1", <<"A">>, <<"d1">>, <<"a1">>, <<"c1">>, <<"g1", "g2">>),
     Row("Movie", "s2", <<"a", "b">>, <<>>, <<"a1">>, <<>>, <<"g1", "g2">>),
     Row("Movie", "s3", <<"B">>, <<"d1">>, <<>>, <<"c1">>, <<"g1">>),
     Row("Movie", "s2", <<"B">>, <<"d1">>, <<"a1", "a1">>, <<>>, <<>>),
     Row("TV Show", "s4", <<"A">>, <<"d1">>, <<"a1">>, <<>>, <<"g1", "g2">>)}

\* the files import_data.py is run on
CsvFiles ==
    {<<r>> : r \in CsvRows}
        \cup {<<Row("Movie", "s1", <<"A">>, <<"d1">>, <<"a1">>, <<"c1">>, <<"g1", "g2">>),
                Row("Movie", "s3", <<"B">>, <<"d1">>, <<>>, <<"c1">>, <<"g1">>)>>}

\* submissions of the Add New Content form
MovieData(show_id, title, directors, cast, countries, genres) ==
    [show_id |-> show_id, title |-> title,
     release_year |-> 2021, rating |-> "R", duration |-> 100,
     directors |-> directors, cast |-> cast, countries |-> countries,
     genres |-> genres]

Submissions ==
    {MovieData("s1", <<"A">>, <<"d1", "d1">>, <<"a1">>, <<"c1">>, <<"g1", "g2">>),
     MovieData("s6", <<"a", "b">>, <<>>, <<"a1">>, <<"c1">>, <<"g1">>)}

\* texts typed into "Search for a movie:"
Searches == {<<>>, <<"a">>, <<"B">>, <<"z">>}

\* ------------------------------------------------------------------- state
TheGraph ==
    [items |-> items, named |-> named, rels |-> rels, constraints |-> constraints]

SetGraph(g) ==
    /\ items' = g.items
    /\ named' = g.named
    /\ rels' = g.rels
    /\ constraints' = g.constraints

PageIdle ==
    /\ pc = "idle"
    /\ movies = <<>>
    /\ search_query = <<>>
    /\ options = <<>>
    /\ selected_movie = None
    /\ recommendations = <<>>
    /\ queries = <<>>
    /\ sessions = <<>>
    /\ driver = "none"
    /\ shown = {}
    /\ error = "none"

\* no run of the Add New Content or AI Query Generator page is under way
NoRun ==
    [page |-> "none", button |-> "none", input |-> None, records |-> -1,
     stored |-> None]

\* st.session_state before the first run: lines 108-111 of the AI Query
\* Generator set generated_query = "" and query_results = None, and
\* st.session_state.get('user_query', '') reads ''
NoState == [generated_query |-> "", query_results |-> None, user_query |-> ""]

NoScript ==
    [name |-> "none", input |-> <<>>, attempts |-> <<>>, printed |-> {},
     driver |-> "none"]

Init ==
    /\ items = EmptyGraph.items
    /\ named = EmptyGraph.named
    /\ rels = EmptyGraph.rels
    /\ constraints = EmptyGraph.constraints
    /\ PageIdle
    /\ script = NoScript
    /\ session_state = NoState
    /\ run = NoRun

\* ----------------------------------------------------------------- actions
\* the other programs write between two queries of a page run, not inside one
Writable == pc \in {"idle", "loaded"}

\* the item nodes an import of csv adds
NewItems(g, csv) ==
    {<<ItemLabel(csv[k].type), csv[k].show_id>> : k \in 1..Len(csv)}
        \ {<<g.items[i].label, g.items[i].show_id>> : i \in 1..Len(g.items)}

\* python import_data.py
ImportData(csv) ==
    /\ Writable
    /\ Len(items) + Cardinality(NewItems(TheGraph, csv)) <= MaxItems
    /\ SetGraph(ImportRows(TheGraph, csv).graph)
    /\ UNCHANGED <<page, script, forms>>

\* "Add Movie" pressed on the Add New Content page
AddMovie(d) ==
    /\ Writable
    /\ Len(items) < MaxItems
    /\ SetGraph(AddMovieQuery(TheGraph, d).graph)
    /\ UNCHANGED <<page, script, forms>>

\* python create_schema.py
CreateSchema ==
    /\ Writable
    /\ SetGraph(CreateConstraints(TheGraph, SchemaOrder))
    /\ UNCHANGED <<page, script, forms>>

\* main() of the Recommendations page up to the search box: the connection
\* (st.error and st.stop() when it fails) and movies_query
PageLoad(fault) ==
    /\ pc = "idle"
    /\ script.name = "none"
    /\ pc' = IF fault = "none" THEN "loaded" ELSE "done"
    /\ driver' = IF fault = "connect" THEN "failed" ELSE "open"
    /\ queries' = IF fault = "connect" THEN <<>> ELSE <<"movies_query">>
    /\ sessions' = IF fault = "connect" THEN <<>>
                   ELSE QueryCall(<<>>, "movies_query", NoParams, fault)
    /\ movies' = IF fault = "none" THEN MoviesQuery(TheGraph) ELSE <<>>
    /\ error' = IF fault \in {"run", "records"} THEN "Neo4jError" ELSE "none"
    /\ shown' = (IF fault = "connect" THEN {"failed_to_connect"} ELSE {})
                    \cup Uncaught(error')
    /\ SetGraph(AfterRead(TheGraph))
    /\ UNCHANGED <<search_query, options, selected_movie, recommendations, script, forms>>

\* the rest of main(): the search text, the selectbox (choice-th option), the
\* recommendations (ending as f1), the details of the selected movie (ending
\* as f2), neo4j.close()
PageRecommend(text, choice, tie, f1, f2) ==
    LET filtered == IF text # <<>> THEN FilteredMovies(movies, text) ELSE <<>>
    IN  /\ pc = "loaded"
        /\ choice \in 1..Max(1, Len(filtered))
        /\ pc' = "done"
        /\ search_query' = text
        /\ options' = filtered
        /\ selected_movie' = IF filtered # <<>> THEN filtered[choice] ELSE None
        /\ recommendations' =
               IF HasSelection(selected_movie') /\ f1 = "none"
               THEN RecommendationsQuery(TheGraph, selected_movie', tie) ELSE <<>>
        /\ LET scored  == HasSelection(selected_movie')
               renders == scored /\ f1 = "none" /\ HasRecommendations(recommendations')
               after1  == IF scored
                          THEN QueryCall(sessions, "recommendations_query",
                                         MovieParams(selected_movie'), f1)
                          ELSE sessions
           IN  /\ queries' = queries
                      \o (IF scored THEN <<"recommendations_query">> ELSE <<>>)
                      \o (IF renders THEN <<"movie_details_query">> ELSE <<>>)
               /\ sessions' =
                      IF renders
                      THEN QueryCall(after1, "movie_details_query",
                                     MovieParams(selected_movie'), f2)
                      ELSE after1
               /\ error' =
                      IF scored /\ f1 # "none" THEN "Neo4jError"
                      ELSE IF renders /\ f2 # "none" THEN "Neo4jError"
                      ELSE IF renders /\ MovieDetailsQuery(TheGraph, selected_movie') = {}
                           THEN "IndexError"
                      ELSE "none"
               /\ shown' =
                      (IF text # <<>> /\ filtered = <<>> THEN {"no_movies_found"} ELSE {})
                      \cup (IF renders THEN {"recommended_movies", "chart"} ELSE {})
                      \cup (IF renders /\ error' = "none" THEN {"about"} ELSE {})
                      \cup (IF scored /\ f1 = "none" /\ ~renders
                            THEN {"no_recommendations_found"} ELSE {})
                      \cup Uncaught(error')
        /\ driver' = IF error' = "none" THEN "closed" ELSE driver
        /\ SetGraph(AfterRead(TheGraph))
        /\ UNCHANGED <<movies, script, forms>>

\* main() has returned or was left by an exception: its locals are gone
PageEnd ==
    /\ pc = "done"
    /\ pc' = "idle"
    /\ movies' = <<>>
    /\ search_query' = <<>>
    /\ options' = <<>>
    /\ selected_movie' = None
    /\ recommendations' = <<>>
    /\ queries' = <<>>
    /\ sessions' = <<>>
    /\ driver' = "none"
    /\ shown' = {}
    /\ error' = "none"
    /\ run' = NoRun
    /\ UNCHANGED <<graph, script, session_state>>

\* the calls of the driver all return
NoFault == {"none"}

Next ==
    \/ \E csv \in CsvFiles : ImportData(csv)
    \/ \E d \in Submissions : AddMovie(d)
    \/ CreateSchema
    \/ \E f \in NoFault : PageLoad(f)
    \/ \E s \in Searches, c \in 1..Max(1, Len(movies)), t \in TieOrders(Len(items)),
          f1 \in NoFault, f2 \in NoFault :
           PageRecommend(s, c, t, f1, f2)
    \/ PageEnd

Spec == Init /\ [][Next]_vars

\* ------------------------------------------------- a catalogue of many movies
\* Specification SpecCatalog: the Recommendations page over catalogues of
\* Limit to MaxCatalog movies, each imported by import_data.py.  All movies
\* are of genre g1, the first k also of genre g2, every third has actor a1,
\* every fourth director d1, so that a selection has fewer than, exactly
\* and more than Limit candidates, of several scores.
Letters == <<"A", "B", "a", "b">>

CatalogTitle(i) == <<Letters[((i - 1) \div 4) + 1], Letters[((i - 1) % 4) + 1]>>

CatalogRow(i, k) ==
    Row("Movie", <<"s", i>>, CatalogTitle(i),
        IF i % 4 = 0 THEN <<"d1">> ELSE <<>>,
        IF i % 3 = 0 THEN <<"a1">> ELSE <<>>,
        <<>>,
        IF i <= k THEN <<"g1", "g2">> ELSE <<"g1">>)

CatalogCsv(n, k) == [i \in 1..n |-> CatalogRow(i, k)]

CatalogGraphs ==
    {ImportRows(EmptyGraph, CatalogCsv(n, k)).graph :
        n \in Limit..MaxCatalog, k \in {0, 1, 5, MaxCatalog}}

InitCatalog ==
    /\ \E g \in CatalogGraphs :
          /\ items = g.items
          /\ named = g.named
          /\ rels = g.rels
          /\ constraints = g.constraints
    /\ PageIdle
    /\ script = NoScript
    /\ session_state = NoState
    /\ run = NoRun

NextCatalog ==
    \/ \E f \in NoFault : PageLoad(f)
    \/ \E s \in Searches, c \in 1..Max(1, Len(movies)), t \in TieOrders(Len(items)),
          f1 \in NoFault, f2 \in NoFault :
           PageRecommend(s, c, t, f1, f2)
    \/ PageEnd

SpecCatalog == InitCatalog /\ [][NextCatalog]_vars

\* --------------------------------------------- the scripts and their failures
\* Specification SpecFaults: the runs of import_data.py, of create_schema.py
\* and of the Recommendations page, one after the other, with the calls of
\* the driver failing.  A script run leaves in `script` the transactions or
\* statements it attempted, what it printed and the state of its driver.
Attempt(what, outcome) == [stmt |-> what, outcome |-> outcome]

\* faulty variant: every failure is retried
RetriedAlways(outcome) == outcome # "committed"

\* session.execute_write runs the transaction function again after a
\* transient failure, while its retry time lasts, and raises any other
\* failure
Retried(outcome) == outcome = "transient"

\* the failures the driver brings to the transaction of row k: none, one
\* failure that is not transient, or n transient failures in a row
DriverFailures(k, bad, n, kind) ==
    IF k # bad THEN <<>>
    ELSE IF kind = "permanent" THEN <<"failed">>
    ELSE [i \in 1..n |-> "transient"]

\* the attempts of one session.execute_write(create_movie_or_show, row): the
\* failures fs are met in turn, after `used` retries; a failure that is not
\* retried raises; after the failures the transaction runs on the data
RECURSIVE ExecuteWrite(_, _, _, _, _)
ExecuteWrite(g, row, k, fs, used) ==
    IF fs = <<>>
    THEN LET r == CreateMovieOrShow(g, row)
         IN  [ok |-> r.ok, graph |-> r.graph,
              attempts |-> <<Attempt(k, IF r.ok THEN "committed" ELSE "failed")>>]
    ELSE IF Retried(Head(fs)) /\ used < MaxRetries
         THEN LET rest == ExecuteWrite(g, row, k, Tail(fs), used + 1)
              IN  [rest EXCEPT !.attempts = <<Attempt(k, Head(fs))>> \o @]
         ELSE [ok |-> FALSE, graph |-> g, attempts |-> <<Attempt(k, Head(fs))>>]

\* faulty variant: a row that fails is skipped and the loop goes on
RECURSIVE RunRowsSkipping(_, _, _, _, _, _)
RunRowsSkipping(g, csv, k, bad, n, kind) ==
    IF k > Len(csv) THEN [ok |-> TRUE, graph |-> g, attempts |-> <<>>]
    ELSE LET r    == ExecuteWrite(g, csv[k], k, DriverFailures(k, bad, n, kind), 0)
             rest == RunRowsSkipping(r.graph, csv, k + 1, bad, n, kind)
         IN  [rest EXCEPT !.attempts = r.attempts \o @, !.ok = r.ok /\ @]

\* the loop of import_data(driver, csv_file) from row k on
RECURSIVE RunRows(_, _, _, _, _, _)
RunRows(g, csv, k, bad, n, kind) ==
    IF k > Len(csv) THEN [ok |-> TRUE, graph |-> g, attempts |-> <<>>]
    ELSE LET r == ExecuteWrite(g, csv[k], k, DriverFailures(k, bad, n, kind), 0)
         IN  IF r.ok
             THEN LET rest == RunRows(r.graph, csv, k + 1, bad, n, kind)
                  IN  [rest EXCEPT !.attempts = r.attempts \o @]
             ELSE r

\* main() of import_data.py.  connect: "none", "connect" (GraphDatabase.driver
\* raises) or "verify" (verify_connectivity raises)
ImportRun(csv, connect, bad, n, kind) ==
    /\ pc = "idle"
    /\ script.name = "none"
    /\ Len(items) + Cardinality(NewItems(TheGraph, csv)) <= MaxItems
    /\ bad \in 0..Len(csv)
    /\ LET r == IF connect = "none" THEN RunRows(TheGraph, csv, 1, bad, n, kind)
                ELSE [ok |-> FALSE, graph |-> TheGraph, attempts |-> <<>>]
       IN  /\ SetGraph(r.graph)
           /\ script' =
                  [name |-> "import_data",
                   input |-> csv,
                   attempts |-> r.attempts,
                   printed |-> (IF connect = "none" THEN {"connected"} ELSE {})
                                   \cup (IF r.ok THEN {"completed"} ELSE {"error"}),
                   driver |-> IF connect = "connect" THEN "failed"
                              ELSE IF r.ok THEN "closed" ELSE "open"]
    /\ UNCHANGED <<page, forms>>

IndexOrder ==
    <<"movie_year", "movie_rating", "movie_duration",
      "tvshow_year", "tvshow_rating", "tvshow_duration">>

\* the session.run calls of create_schema(driver) from the k-th on, the
\* driver failing at the bad-th: a failed statement raises, nothing is run
\* after it and nothing is run twice
RECURSIVE RunStatements(_, _, _, _)
RunStatements(g, todo, k, bad) ==
    IF todo = <<>> THEN [ok |-> TRUE, graph |-> g, attempts |-> <<>>]
    ELSE LET st   == Head(todo)
             good == /\ k # bad
                     /\ st \in Range(SchemaOrder) => Satisfies(g, st)
             g1   == IF st \in Range(SchemaOrder)
                     THEN [g EXCEPT !.constraints = @ \cup {st}] ELSE g
         IN  IF good
             THEN LET rest == RunStatements(g1, Tail(todo), k + 1, bad)
                  IN  [rest EXCEPT !.attempts = <<Attempt(st, "committed")>> \o @]
             ELSE [ok |-> FALSE, graph |-> g, attempts |-> <<Attempt(st, "failed")>>]

\* main() of create_schema.py
SchemaRun(connect, bad) ==
    /\ pc = "idle"
    /\ script.name = "none"
    /\ LET r == IF connect = "none"
                THEN RunStatements(TheGraph, SchemaOrder \o IndexOrder, 1, bad)
                ELSE [ok |-> FALSE, graph |-> TheGraph, attempts |-> <<>>]
       IN  /\ SetGraph(r.graph)
           /\ script' =
                  [name |-> "create_schema",
                   input |-> <<>>,
                   attempts |-> r.attempts,
                   printed |-> (IF connect = "none" THEN {"connected"} ELSE {})
                                   \cup (IF r.ok THEN {"completed"} ELSE {"error"}),
                   driver |-> IF connect = "connect" THEN "failed"
                              ELSE IF r.ok THEN "closed" ELSE "open"]
    /\ UNCHANGED <<page, forms>>

\* the script has ended
ScriptEnd ==
    /\ script.name # "none"
    /\ script' = NoScript
    /\ UNCHANGED <<graph, page, forms>>

ConnectFaults == {"none", "connect", "verify"}

NextFaults ==
    \/ \E csv \in CsvFiles, c \in ConnectFaults, bad \in 0..2,
          n \in 1..(MaxRetries + 1), kind \in {"transient", "permanent"} :
           ImportRun(csv, c, bad, n, kind)
    \/ \E c \in ConnectFaults, bad \in 0..(Len(SchemaOrder) + Len(IndexOrder)) :
           SchemaRun(c, bad)
    \/ ScriptEnd
    \/ \E f \in QueryFaults \cup {"connect"} : PageLoad(f)
    \/ \E s \in Searches, c \in 1..Max(1, Len(movies)), t \in TieOrders(Len(items)),
          f1 \in QueryFaults, f2 \in QueryFaults :
           PageRecommend(s, c, t, f1, f2)
    \/ PageEnd

SpecFaults == Init /\ [][NextFaults]_vars

\* ------------------------------------------- the Add New Content page run
\* Specification SpecAdd: runs of pages/3 Add New Content, each a whole run
\* of main(), between imports and create_schema runs.  The run uses the
\* variables of a page run (pc, driver, queries, sessions, shown, error);
\* `run` holds the button pressed and the movie_data of the form.
AddFaults == {"none", "run"}

\* main() of pages/3.  connect, add, preview: how Neo4jConnection(),
\* add_movie's session.run and the preview query end; a statement that a
\* constraint rejects ends as "constraint".  A rejected or failed
\* add_movie raises and is caught (lines 101-122); a successful one is
\* followed by st.experimental_rerun(), which leaves the run at once; the
\* preview and neo4j.close() are reached on the other paths, unless the
\* preview query raises.
AddPageRun(d, submitted, connect, add, preview) ==
    LET r       == AddMovieQuery(TheGraph, d)
        tried   == submitted /\ connect = "none"
        added   == tried /\ add = "none" /\ r.ok
        outcome == IF add = "none" /\ ~r.ok THEN "constraint" ELSE add
        after1  == IF tried THEN QueryCall(<<>>, "add_movie", d, outcome) ELSE <<>>
        previews == connect = "none" /\ ~added
    IN  /\ pc = "idle"
        /\ script.name = "none"
        /\ submitted => Len(items) < MaxItems
        /\ pc' = "done"
        /\ run' = [page |-> "add",
                   button |-> IF submitted THEN "add_movie" ELSE "none",
                   input |-> IF submitted THEN d ELSE None,
                   records |-> -1,
                   stored |-> None]
        /\ queries' = (IF tried THEN <<"add_movie">> ELSE <<>>)
                          \o (IF previews THEN <<"preview_query">> ELSE <<>>)
        /\ sessions' = IF previews
                       THEN QueryCall(after1, "preview_query", NoParams, preview)
                       ELSE after1
        /\ error' = IF connect # "none" THEN "ServiceUnavailable"
                    ELSE IF added THEN "RerunException"
                    ELSE IF preview # "none" THEN "Neo4jError"
                    ELSE "none"
        /\ shown' = (IF added THEN {"movie_added"} ELSE {})
                        \cup (IF tried /\ ~added THEN {"error_adding_movie"} ELSE {})
                        \cup (IF previews /\ preview = "none" THEN {"preview"} ELSE {})
                        \cup Uncaught(IF error' = "RerunException" THEN "none" ELSE error')
        /\ driver' = IF connect # "none" THEN "failed"
                     ELSE IF error' = "none" THEN "closed" ELSE "open"
        /\ LET written == IF tried /\ add = "none" THEN r.graph ELSE TheGraph
           IN  SetGraph(IF previews THEN AfterRead(written) ELSE written)
        /\ UNCHANGED <<movies, search_query, options, selected_movie,
                       recommendations, script, session_state>>

NextAdd ==
    \/ \E csv \in CsvFiles : ImportData(csv)
    \/ CreateSchema
    \/ \E d \in Submissions, submitted \in BOOLEAN, c \in {"none", "connect"},
          a \in AddFaults, p \in QueryFaults :
           AddPageRun(d, submitted, c, a, p)
    \/ PageEnd

SpecAdd == Init /\ [][NextAdd]_vars

\* --------------------------------------------- pages/4 AI Query Generator
\* Specification SpecAi: runs of the AI Query Generator page, each a whole
\* run of main(), between imports.  st.session_state outlives the runs; `run`
\* holds the button of the run, the question in the text area, the number
\* of records the executed query returned (-1 when none returned) and the
\* query_results the run found stored.
FallbackLimit == 5

\* the Cypher texts of the runs: the fallback query of line 78, a query of
\* two columns, the text returned for an empty response, which is no Cypher,
\* and another text that is no Cypher
FallbackQuery == "MATCH (m:Movie) RETURN m LIMIT 5"
PairsQuery == "MATCH (m:Movie) RETURN m.title, m.release_year"
NoResponse == "Error: No response generated"
BadQuery == "MATCH (m:Movie RETURN m"
CypherTexts == {FallbackQuery, PairsQuery, NoResponse, BadQuery}

\* what model.generate_content gives: it raises, or response.text is text,
\* with or without a markdown fence around the query
Replies ==
    {[raises |-> TRUE, fenced |-> FALSE, query |-> ""]}
        \cup {[raises |-> FALSE, fenced |-> f, query |-> q] :
                 f \in BOOLEAN, q \in {"", FallbackQuery, PairsQuery, BadQuery}}

\* clean_cypher_query(response.text): the fence lines are removed and the
\* text is stripped, which leaves the query inside
CleanCypherQuery(reply) == reply.query

\* generate_cypher_query(user_input)
GenerateCypherQuery(reply) ==
    IF reply.raises THEN FallbackQuery
    ELSE IF reply.query = "" /\ ~reply.fenced THEN NoResponse
    ELSE CleanCypherQuery(reply)

\* the records neo4j.query(cypher_query) returns: their number and the
\* number of keys of each, or a failure
RunCypher(g, q, fault) ==
    IF fault # "none" \/ q \notin {FallbackQuery, PairsQuery}
    THEN [ok |-> FALSE, rows |-> -1, columns |-> 0]
    ELSE IF q = FallbackQuery
         THEN [ok |-> TRUE, rows |-> Min(FallbackLimit, Cardinality(MovieNodes(g))),
               columns |-> 1]
         ELSE [ok |-> TRUE, rows |-> Cardinality(MovieNodes(g)), columns |-> 2]

\* pd.DataFrame(results)
DataFrame(rows, columns) == <<"DataFrame", rows, columns>>

\* execute_query(cypher_query, neo4j): `if results:` gives the DataFrame of a
\* list that is not empty, and None for an empty list or after a failure
ExecuteQuery(r) == IF r.ok /\ r.rows > 0 THEN DataFrame(r.rows, r.columns) ELSE None

\* faulty variant: the new query is stored and the old results are kept
GeneratedKeepingResults(ss, q) == [ss EXCEPT !.generated_query = q]

\* lines 136-137: the generated query is stored and the results are reset
Generated(ss, q) == [ss EXCEPT !.generated_query = q, !.query_results = None]

\* lines 154-160: the results section
ResultsSection(results) ==
    IF results = None THEN {}
    ELSE {"results"} \cup (IF results[2] = 0 \/ results[3] = 0
                           THEN {"no_records_warning"} ELSE {"dataframe"})

ExampleQuestion == "Show me all movies directed by Christopher Nolan"
Questions == {"", "Which movies are from c1?"}
Buttons == {"none", "example", "generate", "execute"}

\* main() of pages/4.  button: the button pressed for this run; question:
\* the text in the text area; reply: what Gemini gives; edit: the text of
\* "Edit the query if needed", "keep" when it is left as it is; fault: how
\* the query of execute_query ends
AiRun(button, question, reply, edit, fault) ==
    LET ss0   == IF button = "example"
                 THEN [session_state EXCEPT !.user_query = ExampleQuestion]
                 ELSE session_state
        user_query == IF button = "example" THEN ExampleQuestion ELSE question
        generates  == button = "generate" /\ user_query # ""
        ss1   == IF generates THEN Generated(ss0, GenerateCypherQuery(reply)) ELSE ss0
        edits == ss1.generated_query # ""
        ss2   == IF edits /\ edit # "keep" THEN [ss1 EXCEPT !.generated_query = edit]
                 ELSE ss1
        executes == edits /\ button = "execute"
        r     == RunCypher(TheGraph, ss2.generated_query, fault)
        ss3   == IF executes THEN [ss2 EXCEPT !.query_results = ExecuteQuery(r)] ELSE ss2
    IN  /\ pc = "idle"
        /\ script.name = "none"
        /\ button = "execute" => session_state.generated_query # ""
        /\ edit # "keep" => session_state.generated_query # ""
        /\ pc' = "done"
        /\ session_state' = ss3
        /\ run' = [page |-> "ai", button |-> button, input |-> user_query,
                   records |-> IF executes /\ r.ok THEN r.rows ELSE -1,
                   stored |-> session_state.query_results]
        /\ queries' = IF executes THEN <<ss2.generated_query>> ELSE <<>>
        /\ sessions' = IF executes
                       THEN QueryCall(<<>>, ss2.generated_query, NoParams,
                                      IF r.ok THEN "none"
                                      ELSE IF fault = "none" THEN "run" ELSE fault)
                       ELSE <<>>
        /\ error' = "none"
        /\ shown' = (IF generates /\ reply.raises THEN {"error_with_gemini"} ELSE {})
                        \cup (IF edits THEN {"generated_query"} ELSE {})
                        \cup (IF executes /\ ~r.ok THEN {"error_executing_query"} ELSE {})
                        \cup ResultsSection(ss3.query_results)
        /\ driver' = "closed"
        /\ SetGraph(IF executes /\ r.ok THEN AfterRead(TheGraph) ELSE TheGraph)
        /\ UNCHANGED <<movies, search_query, options, selected_movie,
                       recommendations, script>>

\* the reply matters to a run that generates and the fault to a run that
\* executes: the other runs take one value of each
NextAi ==
    \/ \E csv \in {c \in CsvFiles : Len(c) = 2} : ImportData(csv)
    \/ \E b \in Buttons, q \in Questions, e \in {"keep", "", PairsQuery, BadQuery} :
          \E reply \in IF b = "generate" /\ q # "" THEN Replies
                       ELSE {[raises |-> TRUE, fenced |-> FALSE, query |-> ""]},
             f \in IF b = "execute" THEN QueryFaults ELSE {"none"} :
               AiRun(b, q, reply, e, f)
    \/ PageEnd

SpecAi == Init /\ [][NextAi]_vars

\* ============================================================== properties
\* What the properties read off the graph, stated on the relationships
\* themselves.
NamesOf(t, i) == {e[3] : e \in {x \in DOMAIN rels : x[1] = t /\ x[2] = i}}

Overlap(t, i, j) == Cardinality(NamesOf(t, i) \cap NamesOf(t, j))

IsMovie(i) == i \in 1..Len(items) /\ items[i].label = "Movie"

\* the Movie nodes carrying the selected title
SelectedItems == {i \in 1..Len(items) : IsMovie(i) /\ items[i].title = selected_movie}

\* the pairs <<selected, other movie with a common genre>>
Candidates ==
    {p \in SelectedItems \X (1..Len(items)) :
        /\ IsMovie(p[2])
        /\ p[2] # p[1]
        /\ Overlap("BELONGS_TO_GENRE", p[1], p[2]) > 0}

\* 2.0 * genres + 1.5 * actors + 1.5 * directors, in tenths
Similarity(i, j) ==
    20 * Overlap("BELONGS_TO_GENRE", i, j) + 15 * Overlap("ACTED_IN", i, j)
        + 15 * Overlap("DIRECTED", i, j)

Returned == {<<recommendations[k].selected, recommendations[k].similar>> :
                k \in 1..Len(recommendations)}

Scored == pc = "done" /\ selected_movie # None

C2_ScoresNonIncreasing ==
    pc = "done" =>
        \A k \in 1..(Len(recommendations) - 1) :
            recommendations[k].similarity_score
                >= recommendations[k + 1].similarity_score

\* a list whose scores do decrease somewhere
C2_Witness ==
    /\ pc = "done"
    /\ \E k \in 1..(Len(recommendations) - 1) :
           recommendations[k].similarity_score
               > recommendations[k + 1].similarity_score

\* C3: no returned row is a node carrying the selected title (the selected
\* item is not in its own list).
C3_SelectedNotRecommended ==
    pc = "done" =>
        \A k \in 1..Len(recommendations) :
            /\ recommendations[k].similar \notin SelectedItems
            /\ recommendations[k].title # selected_movie

\* C4: at most 10 rows come back, and with fewer than 10 candidates every
\* candidate has its row.
C4_AtMostTenRows ==
    pc = "done" =>
        /\ Len(recommendations) <= 10
        /\ Cardinality(Candidates) < 10 => Candidates \subseteq Returned

\* more than 10 candidates, 10 rows
C4_Witness ==
    /\ pc = "done"
    /\ Cardinality(Candidates) > 10
    /\ Len(recommendations) = 10

\* C5: no candidate left out of the result scores strictly higher than a
\* returned row.
C5_TopRanked ==
    pc = "done" =>
        \A p \in Candidates \ Returned :
            \A k \in 1..Len(recommendations) :
                Similarity(p[1], p[2]) <= recommendations[k].similarity_score

\* a candidate is left out, and it scores lower than the first row
C5_Witness ==
    /\ pc = "done"
    /\ Len(recommendations) > 0
    /\ \E p \in Candidates \ Returned :
           Similarity(p[1], p[2]) < recommendations[1].similarity_score

\* C6: when no Movie carries the selected title, the query returns no row,
\* the page shows "No recommendations found", nothing is raised and
\* movie_details_query is not run.
C6_AbsentSelectionIsEmpty ==
    (Scored /\ SelectedItems = {}) =>
        /\ recommendations = <<>>
        /\ "no_recommendations_found" \in shown
        /\ error = "none"
        /\ queries = <<"movies_query", "recommendations_query">>

\* a title was selected and, by the time of the query, no Movie carries it
C6_Witness ==
    /\ Scored
    /\ SelectedItems = {}
    /\ \E k \in 1..Len(movies) : movies[k] = selected_movie
    /\ "recommendations_query" \in Range(queries)

\* C7: every returned row has a score above zero.
C7_ScoresPositive ==
    pc = "done" =>
        \A k \in 1..Len(recommendations) : recommendations[k].similarity_score > 0

\* rows are returned while another movie, sharing nothing with the selected
\* one, stays out
C7_Witness ==
    /\ pc = "done"
    /\ recommendations # <<>>
    /\ \E s \in SelectedItems, c \in 1..Len(items) :
           /\ IsMovie(c)
           /\ c # s
           /\ Similarity(s, c) = 0
           /\ <<s, c>> \notin Returned

\* C8: every returned row shares at least one genre with its selected
\* movie; a movie sharing only actors or directors is not returned.
C8_CandidatesShareGenre ==
    pc = "done" =>
        /\ \A k \in 1..Len(recommendations) :
               Overlap("BELONGS_TO_GENRE", recommendations[k].selected,
                       recommendations[k].similar) > 0
        /\ \A s \in SelectedItems, c \in 1..Len(items) :
               (/\ IsMovie(c)
                /\ Overlap("BELONGS_TO_GENRE", s, c) = 0) => <<s, c>> \notin Returned

\* a movie shares an actor and a director, but no genre, with the selected
\* movie and the query has run
C8_Witness ==
    /\ Scored
    /\ \E s \in SelectedItems, c \in 1..Len(items) :
           /\ IsMovie(c)
           /\ c # s
           /\ Overlap("BELONGS_TO_GENRE", s, c) = 0
           /\ Overlap("ACTED_IN", s, c) > 0
           /\ Overlap("DIRECTED", s, c) > 0

\* C9: a Movie without any genre is in no recommendation list, and
\* selecting one gives an empty list.
C9_NoGenreItemIsolated ==
    pc = "done" =>
        /\ \A k \in 1..Len(recommendations) :
               NamesOf("BELONGS_TO_GENRE", recommendations[k].similar) # {}
        /\ (\E s \in SelectedItems : NamesOf("BELONGS_TO_GENRE", s) = {})
               => recommendations = <<>>

\* C10: a step of the Recommendations page leaves the nodes, their
\* attributes, the relationships and the constraints as they were.
C10_PageReadOnly ==
    [][pc' # pc => /\ items' = items
                   /\ named' = named
                   /\ rels' = rels
                   /\ constraints' = constraints]_vars

\* the page has run its three queries on a graph with relationships
C10_Witness ==
    /\ pc = "done"
    /\ queries = <<"movies_query", "recommendations_query", "movie_details_query">>
    /\ DOMAIN rels # {}

\* ------------------------------------------------------------- C11 .. C13
\* C11: every session opened by Neo4jConnection.query is released when query
\* returns or raises, whichever way the call ended, and every call has a
\* session of its own: no session of a run is open, no two calls of a run
\* share a session, and there is one session per query issued.
C11_SessionsReleased ==
    /\ Len(sessions) = Len(queries)
    /\ \A k \in DOMAIN sessions :
           /\ ~sessions[k].open
           /\ sessions[k].query = queries[k]
           /\ \A j \in DOMAIN sessions : j # k => sessions[j].id # sessions[k].id

\* a run of three calls, the last of which failed while its records were read
C11_Witness ==
    /\ Len(sessions) = 3
    /\ sessions[3].outcome = "records"
    /\ sessions[1].outcome = "none"

\* a data-access failure of the page run: the driver could not be made, or a
\* query raised
PageFailed ==
    \/ driver = "failed"
    \/ \E k \in DOMAIN sessions : sessions[k].outcome # "none"

\* C12: a data-access failure of a Recommendations page run is shown to the
\* user and ends the run only: the run is in its final state with a message
\* on the page, and the step after it returns the page to the state from
\* which every run starts, with nothing of the failure left.
C12_FailureSurfacedNotFatal ==
    [][PageFailed =>
           /\ pc = "done"
           /\ shown \cap {"failed_to_connect", "exception"} # {}
           /\ pc' = "idle"
           /\ driver' = "none" /\ sessions' = <<>> /\ queries' = <<>>
           /\ error' = "none" /\ shown' = {}
           /\ selected_movie' = None /\ movies' = <<>>
           /\ graph' = graph]_vars

\* a run whose scoring query raised after the titles were loaded
C12_Witness ==
    /\ pc = "done"
    /\ Len(sessions) = 2
    /\ sessions[2].outcome = "run"
    /\ error = "Neo4jError"
    /\ "exception" \in shown

\* attempt j of a script run is followed by another attempt of the same
\* transaction or statement
Repeated(j) ==
    /\ j < Len(script.attempts)
    /\ script.attempts[j + 1].stmt = script.attempts[j].stmt

\* C13 as stated: a failed data-access call is never retried, in a page run,
\* an import_data run or a create_schema run.
C13_NeverRetried ==
    /\ \A k \in DOMAIN sessions :
           sessions[k].outcome # "none" => k = Len(sessions)
    /\ \A j \in DOMAIN script.attempts :
           script.attempts[j].outcome # "committed" => ~Repeated(j)

\* C13 amended: a failed call is not issued again in a page run or in a
\* create_schema run, and the first failure ends the run's calls; in an
\* import_data run only a transient failure of a row's transaction is
\* retried (by session.execute_write), at most MaxRetries times, and any
\* other failure, or a transient one that is not retried, ends the run's
\* calls.
C13_OnlyTransientRetried ==
    /\ \A k \in DOMAIN sessions :
           sessions[k].outcome # "none" => k = Len(sessions)
    /\ \A j \in DOMAIN script.attempts :
           LET a == script.attempts[j]
           IN  /\ a.outcome = "failed" => j = Len(script.attempts)
               /\ a.outcome = "committed" => ~Repeated(j)
               /\ Repeated(j) => script.name = "import_data" /\ a.outcome = "transient"
               /\ a.outcome = "transient" /\ ~Repeated(j) => j = Len(script.attempts)
               /\ j + MaxRetries + 1 <= Len(script.attempts)
                      => script.attempts[j + MaxRetries + 1].stmt # a.stmt
    /\ script.name = "create_schema" =>
           \A i, j \in DOMAIN script.attempts :
               i # j => script.attempts[i].stmt # script.attempts[j].stmt

\* an import_data run whose first row failed twice with a transient failure
\* and was committed by the third attempt
C13_Witness ==
    /\ script.name = "import_data"
    /\ Len(script.attempts) >= 3
    /\ script.attempts[1].outcome = "transient"
    /\ script.attempts[2].outcome = "transient"
    /\ script.attempts[3] = Attempt(1, "committed")

\* ------------------------------------------------------------- C14 .. C16
\* C14: item identity keys are unique in every reachable graph: no two item
\* nodes carry the same show_id, whatever import_data runs and add_movie
\* submissions came before.
C14_ShowIdUnique ==
    \A i, j \in DOMAIN items :
        i # j => items[i].show_id # items[j].show_id

\* C15: Person, Genre and Country names are unique within their label:
\* there is exactly one node of its label for every name a relationship
\* mentions, and never two nodes of one label with one name.
C15_NamesUnique ==
    /\ \A l \in Labels : \A n \in DOMAIN named[l] : named[l][n] = 1
    /\ \A e \in DOMAIN rels : Copies(named[LabelOf(e[1])], e[3]) = 1

\* the actor a1, named twice in the row that wrote item s2 and again by
\* another item, is one node
C15_Witness ==
    /\ Copies(named["Actor"], "a1") = 1
    /\ \E i, j \in DOMAIN items :
           /\ i # j
           /\ items[i].show_id = "s2" /\ items[i].title = <<"B">>
           /\ {<<"ACTED_IN", i, "a1">>, <<"ACTED_IN", j, "a1">>} \subseteq DOMAIN rels
    /\ Copies(named["Director"], "d1") = 1

\* C16: nothing is deleted: in every step the nodes and the associations of
\* the state before are nodes and associations of the state after (an item
\* keeps its label and its show_id; its other attributes may be rewritten).
C16_NothingDeleted ==
    [][/\ Len(items') >= Len(items)
       /\ \A i \in DOMAIN items :
              /\ items'[i].label = items[i].label
              /\ items'[i].show_id = items[i].show_id
       /\ \A l \in Labels : \A n \in DOMAIN named[l] :
              Copies(named'[l], n) >= named[l][n]
       /\ \A e \in DOMAIN rels : Copies(rels', e) >= rels[e]]_vars

\* item s2 was written again by a row that names no genre and still has the
\* genre associations of the row that created it
C16_Witness ==
    \E i \in DOMAIN items :
        /\ items[i].show_id = "s2" /\ items[i].title = <<"B">>
        /\ {<<"BELONGS_TO_GENRE", i, "g1">>, <<"BELONGS_TO_GENRE", i, "g2">>,
            <<"DIRECTED", i, "d1">>} \subseteq DOMAIN rels

\* ------------------------------------------------------------------- C17
\* the cleaned CSV files of one and of two rows
TwoRowFiles == {<<r>> : r \in CsvRows} \cup {<<r1, r2>> : r1, r2 \in CsvRows}

\* C17: the import is an idempotent upsert: on every reachable graph (each
\* is the graph of a state with no page run under way) and for every file, importing the file a second time leaves exactly the graph
\* the first import left: the same item nodes with the same attributes, the
\* same named nodes and the same associations, each once.
C17_ImportIdempotent ==
    pc = "idle" =>
        \A csv \in TwoRowFiles :
            LET once == ImportRows(TheGraph, csv).graph
            IN  ImportRows(once, csv).graph = once

\* the graph left by an import of the file of rows s1 and s3, which a
\* further import of that file leaves as it is
C17_Witness ==
    LET csv == <<Row("Movie", "s1", <<"A">>, <<"d1">>, <<"a1">>, <<"c1">>, <<"g1", "g2">>),
                 Row("Movie", "s3", <<"B">>, <<"d1">>, <<>>, <<"c1">>, <<"g1">>)>>
    IN  /\ Len(items) = 2
        /\ NewItems(TheGraph, csv) = {}
        /\ \A i \in DOMAIN items : items[i].release_year = 2020
        /\ {<<"BELONGS_TO_GENRE", 1, "g2">>, <<"RELEASED_IN", 2, "c1">>}
               \subseteq DOMAIN rels
        /\ ImportRows(TheGraph, csv).ok
        /\ ImportRows(TheGraph, csv).graph = TheGraph

\* ------------------------------------------------------------------- C18
\* C18: the three overlap counts are computed independently and over
\* distinct entities: in every returned row the actor count is the number
\* of distinct Actors linked to both movies, the director count the number
\* of distinct Directors linked to both and the genre count the number of
\* distinct common Genres, none changed by another.
C18_CountsIndependent ==
    pc = "done" =>
        \A k \in 1..Len(recommendations) :
            LET r == recommendations[k] IN
            /\ r.genre_matches = Overlap("BELONGS_TO_GENRE", r.selected, r.similar)
            /\ r.actor_matches = Overlap("ACTED_IN", r.selected, r.similar)
            /\ r.director_matches = Overlap("DIRECTED", r.selected, r.similar)
            /\ r.actor_matches <= Cardinality(NamesOf("ACTED_IN", r.selected))
            /\ r.director_matches <= Cardinality(NamesOf("DIRECTED", r.selected))

\* a row of a pair with two common genres, one common actor and one common
\* director: both counts are 1
C18_Witness ==
    /\ pc = "done"
    /\ \E k \in 1..Len(recommendations) :
           LET r == recommendations[k] IN
           /\ Overlap("BELONGS_TO_GENRE", r.selected, r.similar) = 2
           /\ r.actor_matches = 1
           /\ r.director_matches = 1
           /\ r.similarity_score = 70

\* ------------------------------------------------------------- C19 .. C20
\* the calls of the run that issued the scoring traversal
ScoringCalls == {k \in DOMAIN sessions : sessions[k].query = "recommendations_query"}

\* C19: in one run of the page the scoring traversal is issued at most once,
\* with exactly one bound parameter, the selected title, and only when a
\* movie is selected: a finished run with empty search text, or with a text
\* matching no loaded title, issued none, and a run with a selection issued
\* one.
C19_OneScoringTraversal ==
    /\ Cardinality(ScoringCalls) <= 1
    /\ Cardinality({k \in DOMAIN queries : queries[k] = "recommendations_query"})
           = Cardinality(ScoringCalls)
    /\ \A k \in ScoringCalls :
           /\ DOMAIN sessions[k].params = {"movie"}
           /\ sessions[k].params.movie = selected_movie
           /\ selected_movie # None
           /\ selected_movie \in Range(movies)
    /\ pc = "done" /\ (search_query = <<>> \/ options = <<>>) => ScoringCalls = {}
    /\ pc = "done" /\ selected_movie # None => Cardinality(ScoringCalls) = 1

\* a finished run that scored the title "B", chosen among the titles
\* matching "B", and went on to read its details
C19_Witness ==
    /\ pc = "done"
    /\ search_query = <<"B">>
    /\ selected_movie = <<"B">>
    /\ queries = <<"movies_query", "recommendations_query", "movie_details_query">>
    /\ sessions[2].params = [movie |-> <<"B">>]

\* C20: the movie search is case-insensitive and closed over the loaded
\* list: the titles offered are exactly the loaded titles, in their order,
\* whose lower-cased form contains the lower-cased search text, and the
\* selected movie is one of them, so one of the titles read in this run.
C20_SearchClosedOverLoaded ==
    pc = "done" =>
        /\ \A t \in Range(movies) :
               t \in Range(options) <=>
                   (search_query # <<>> /\ Contains(Lower(t), Lower(search_query)))
        /\ Range(options) \subseteq Range(movies)
        /\ \A i, j \in DOMAIN options :
               i < j => \E a, b \in DOMAIN movies :
                            a < b /\ movies[a] = options[i] /\ movies[b] = options[j]
        /\ selected_movie # None =>
               selected_movie \in Range(options) /\ selected_movie \in Range(movies)
        /\ selected_movie = None <=> options = <<>>

\* the text "a" offered the titles "A" and "ab", and "ab" was selected
C20_Witness ==
    /\ pc = "done"
    /\ search_query = <<"a">>
    /\ {<<"A">>, <<"a", "b">>} \subseteq Range(options)
    /\ <<"B">> \in Range(movies)
    /\ <<"B">> \notin Range(options)
    /\ selected_movie = <<"a", "b">>

\* ------------------------------------------------------------------- C21
\* the item nodes a submission d of the Add New Content form created and no
\* import has written since (an import sets the release year of its rows)
AddedBy(d) ==
    {i \in DOMAIN items :
        /\ items[i].label = "Movie"
        /\ items[i].show_id = d.show_id
        /\ items[i].title = d.title
        /\ items[i].release_year = d.release_year}

\* C21: after a successful add_movie(movie_data) the new Movie is linked to
\* every director, cast member, country and genre of movie_data, whichever
\* of the lists are empty.
C21_AddedMovieFullyLinked ==
    \A d \in Submissions : \A i \in AddedBy(d) :
        /\ \A n \in Range(d.directors) : <<"DIRECTED", i, n>> \in DOMAIN rels
        /\ \A n \in Range(d.cast)      : <<"ACTED_IN", i, n>> \in DOMAIN rels
        /\ \A n \in Range(d.countries) : <<"RELEASED_IN", i, n>> \in DOMAIN rels
        /\ \A n \in Range(d.genres)    : <<"BELONGS_TO_GENRE", i, n>> \in DOMAIN rels

\* ------------------------------------------------------------------- C22
\* the step is a run of the Add New Content page whose submission failed
AddFailed ==
    /\ run.page = "none"
    /\ run'.page = "add"
    /\ run'.button = "add_movie"
    /\ sessions' # <<>>
    /\ sessions'[1].outcome # "none"

C23_CandidatesOnce ==
    pc = "done" =>
        \A j, k \in DOMAIN recommendations :
            j # k => recommendations[j].similar # recommendations[k].similar

\* the titles of the Movie nodes
MovieTitles == {items[i].title : i \in {j \in DOMAIN items : items[j].label = "Movie"}}

\* C24: only Movie items take part in scoring: the titles a run loads for
\* the selection list are the titles of the Movie nodes, and every row a
\* run returns is about a Movie node and carries its title; a TVShow is
\* never a candidate, whatever it shares with the selected Movie.
C24_OnlyMovies ==
    [][/\ (pc = "idle" /\ pc' = "loaded") => Range(movies') = MovieTitles
       /\ (pc = "loaded" /\ pc' = "done") =>
              /\ Range(options') \subseteq Range(movies)
              /\ \A k \in DOMAIN recommendations' :
                     LET r == recommendations'[k] IN
                     /\ r.similar \in DOMAIN items
                     /\ items[r.similar].label = "Movie"
                     /\ items[r.selected].label = "Movie"
                     /\ r.title = items[r.similar].title]_vars

\* a run that returned rows for a selected Movie while a TVShow shares two
\* genres, an actor and a director with it: no row is about the TVShow, and
\* its title is listed only because a Movie carries it too
C24_Witness ==
    /\ pc = "done"
    /\ recommendations # <<>>
    /\ \E t \in DOMAIN items :
           /\ items[t].label = "TVShow"
           /\ \A k \in DOMAIN recommendations :
                  LET r == recommendations[k] IN
                  /\ r.similar # t
                  /\ Overlap("BELONGS_TO_GENRE", r.selected, t) = 2
                  /\ Overlap("ACTED_IN", r.selected, t) = 1
                  /\ Overlap("DIRECTED", r.selected, t) = 1
    /\ \A k \in DOMAIN movies : movies[k] \in MovieTitles

\* ------------------------------------------------------------------- C25
\* C25: every page run that created a database driver has closed it when
\* the run ends, whichever way it ends: normally, by an exception of a
\* query, by st.stop(), or by the rerun after a successful add_movie.
C25_DriverClosed ==
    pc = "done" => driver \in {"closed", "failed"}

\* ------------------------------------------------------------------- C26
\* the step is a run of import_data.py that reached the rows
ImportRan ==
    /\ script.name = "none"
    /\ script'.name = "import_data"
    /\ "connected" \in script'.printed

C27_EmptyResultWarned ==
    (/\ pc = "done"
     /\ run.page = "ai"
     /\ run.button = "execute"
     /\ run.records = 0) => "no_records_warning" \in shown

\* C28: pressing 'Generate Cypher Query' with a question that is not empty
\* clears the stored results, and they stay cleared until 'Execute Query' is
\* pressed: a run that generates leaves query_results None and shows no
\* results section, and so does every step that starts with query_results
\* None and is not a run with 'Execute Query' pressed.
C28_GenerateClearsResults ==
    [][/\ (run'.page = "ai" /\ run'.button = "generate" /\ run'.input # "") =>
              /\ session_state'.query_results = None
              /\ "results" \notin shown'
       /\ (session_state.query_results = None /\ run'.button # "execute") =>
              /\ session_state'.query_results = None
              /\ "results" \notin shown']_vars

\* a run that generated a query while results of an earlier execution were
\* stored: they are gone and no results section is on the page
C28_Witness ==
    /\ pc = "done"
    /\ run.page = "ai"
    /\ run.button = "generate"
    /\ run.stored = DataFrame(2, 2)
    /\ session_state.generated_query = FallbackQuery
    /\ session_state.query_results = None
    /\ "results" \notin shown

====
